---- MODULE Spec2Model ----
(***************************************************************************)
(* Model of sample_data/generate.py (the mock data generator of the AaC     *)
(* prototype) together with the rating engine that the specification       *)
(* describes on top of the generated fixtures.                              *)
(*                                                                          *)
(* Units.  Money is kept in integers: a rate is a number of 1/100000 of a   *)
(* dollar per unit (0.0005 is 50, 0.00008 is 8), an exact product           *)
(* quantity x rate is therefore in 1/100000 dollar, and an amount is in     *)
(* cents (2000.00 is 200000).                                               *)
(*                                                                          *)
(* Text.  A datetime's isoformat() is the sequence of its fixed-width,      *)
(* zero-padded fields <<year, month, day, hour, minute, second>>; Python's  *)
(* string order on such texts is the lexicographic order of the fields.     *)
(***************************************************************************)
EXTENDS Integers, Sequences, FiniteSets, TLC

VARIABLES
    pc,          \* position of the process: boot, the steps of main(), the engine
    run,         \* which execution of the script this is (1, 2, ...)
    stream,      \* which pseudo-random sequence a seed selects (fixed per behaviour)
    rng,         \* state of the global `random` generator
    fakeRng,     \* state of Faker's own generator
    loop,        \* which of the five for-loops of generate_usage_events is running
    i,           \* its loop variable
    event_id,    \* generate_usage_events' counter
    events,      \* generate_usage_events' list
    totals,      \* generate_usage_events' totals dict
    files,       \* the files written to OUTPUT_DIR
    prevFiles,   \* the files the previous execution left behind
    prevTotals,  \* the totals the previous execution computed
    chargeLines, \* rating engine: charge lines of this execution
    prevLines,   \* rating engine: charge lines of the previous execution
    statements,  \* reconciliation: statement per customer
    probe        \* the pricing-model evaluations asked for (at most one)

vars == <<pc, run, stream, rng, fakeRng, loop, i, event_id, events, totals,
          files, prevFiles, prevTotals, chargeLines, prevLines, statements, probe>>

\* ------------------------------------------------------------------ bounds

\* Executions of the script that are followed.
MaxRuns == 2

\* Pseudo-random sequences considered: stream ranges over 0..MaxStream.
MaxStream == 5

\* Pricing evaluations are asked for the quantities 0, 500000, ...,
\* MaxQSteps * 500000 and for the quantities next to each allowance boundary.
MaxQSteps == 16

None == "none"

\* ------------------------------------------------------------------ dates

IsLeap(y) ==
    (y % 4 = 0 /\ y % 100 # 0) \/ y % 400 = 0

DaysInMonth(y, m) ==
    IF m = 2 THEN (IF IsLeap(y) THEN 29 ELSE 28)
    ELSE IF m \in {4, 6, 9, 11} THEN 30 ELSE 31

\* datetime(2024, 11, 1)
BASE_DATE ==
    [year |-> 2024, month |-> 11, day |-> 1, hour |-> 0, minute |-> 0, second |-> 0]

RECURSIVE AddDays(_, _)
\* date + timedelta(days = n), n >= 0, by calendar months
AddDays(d, n) ==
    LET dim == DaysInMonth(d.year, d.month) IN
    IF d.day + n <= dim
    THEN [d EXCEPT !.day = d.day + n]
    ELSE AddDays([d EXCEPT !.day = 1,
                           !.month = IF d.month = 12 THEN 1 ELSE d.month + 1,
                           !.year = IF d.month = 12 THEN d.year + 1 ELSE d.year],
                 n - (dim - d.day + 1))

\* dt + timedelta(days, hours, minutes)
AddDelta(dt, days, hours, minutes) ==
    LET mins == dt.hour * 60 + dt.minute + hours * 60 + minutes
        day0 == AddDays(dt, days + (mins \div 1440))
    IN  [day0 EXCEPT !.hour = (mins % 1440) \div 60, !.minute = (mins % 1440) % 60]

\* datetime.isoformat(): "YYYY-MM-DDTHH:MM:SS" as its fields
isoformat(dt) ==
    <<dt.year, dt.month, dt.day, dt.hour, dt.minute, dt.second>>

\* datetime.strftime("%Y-%m-%d")
strftime_ymd(dt) ==
    <<dt.year, dt.month, dt.day>>

\* Python's str < str on two texts of the same fixed-width layout
StrLess(a, b) ==
    \E k \in 1..Len(a) :
        /\ k <= Len(b)
        /\ a[k] < b[k]
        /\ \A j \in 1..(k - 1) : a[j] = b[j]

\* ------------------------------------------------------------------ randomness

\* One step of a generator.  CPython's Mersenne Twister is not reproduced bit for
\* bit: the generator is a full-period linear congruential one over the 43200
\* minutes of thirty days, and `stream` selects which sequence a seed starts.
RngNext(s) ==
    (61 * s + 7) % 43200

\* The value a generator in state s yields for randint(lo, hi): lo..hi inclusive.
RandintOf(s, lo, hi) ==
    lo + ((s * (hi - lo + 1)) \div 43200)

\* Faulty variant: the seed is taken from the clock and differs from one
\* execution to the next.
RandomSeedFromClock(a) ==
    (a * 1009 + stream * 14407 + run * 7919) % 43200

\* random.seed(a) / Faker.seed(a): the same state every time it is called with a.
RandomSeed(a) ==
    (a * 1009 + stream * 14407) % 43200

\* ------------------------------------------------------------------ fixtures

RECURSIVE RngIter(_, _)
\* the generator state after n draws
RngIter(s, n) ==
    IF n = 0 THEN s ELSE RngIter(RngNext(s), n - 1)

\* fake.company() on a generator that has made its draw
FakeCompany(s) ==
    <<"company", RandintOf(s, 0, 999)>>

\* fake.company_email() on a generator that has made its draw
FakeCompanyEmail(s) ==
    <<"email", RandintOf(s, 0, 999)>>

\* The list generate_customers builds from Faker's generator in state s: the
\* dict literals draw name and email in order, customer after customer.
Customers(s) ==
    << [customer_id |-> "cust_001",
        name |-> FakeCompany(RngIter(s, 1)), email |-> FakeCompanyEmail(RngIter(s, 2)),
        created_at |-> isoformat(BASE_DATE), tier |-> "free"],
       [customer_id |-> "cust_002",
        name |-> FakeCompany(RngIter(s, 3)), email |-> FakeCompanyEmail(RngIter(s, 4)),
        created_at |-> isoformat(BASE_DATE), tier |-> "payg"],
       [customer_id |-> "cust_003",
        name |-> FakeCompany(RngIter(s, 5)), email |-> FakeCompanyEmail(RngIter(s, 6)),
        created_at |-> isoformat(BASE_DATE), tier |-> "prepaid"] >>

\* The list generate_products builds.
Products ==
    << [product_id |-> "prod_001", name |-> "Product Analytics",
        description |-> "Track and analyze user behavior and product metrics",
        unit |-> "event"],
       [product_id |-> "prod_002", name |-> "Session Replay",
        description |-> "Record and replay user sessions for debugging",
        unit |-> "session"],
       [product_id |-> "prod_003", name |-> "Feature Flags",
        description |-> "Control feature rollouts and A/B testing",
        unit |-> "flag_evaluation"] >>

\* Faulty variant: the contracts end thirty days after they start.
ContractEndThirtyDays(start) ==
    AddDelta(start, 30, 0, 0)

\* (BASE_DATE + timedelta(days=365)), the end of every contract
ContractEnd(start) ==
    AddDelta(start, 365, 0, 0)

\* Faulty variant: a digit of included_units is lost.
PrepaidPricingSmallBucket ==
    [model |-> "prepaid_with_free_tier", free_units |-> 1000000,
     upfront_payment |-> 100000, included_units |-> 500000,
     rate_per_unit |-> 20, overage_rate |-> 25]

\* The pricing of cont_003's Product Analytics component.
PrepaidPricing ==
    [model |-> "prepaid_with_free_tier", free_units |-> 1000000,
     upfront_payment |-> 100000, included_units |-> 5000000,
     rate_per_unit |-> 20, overage_rate |-> 25]

\* Faulty variant: the free allowance of cont_002 is left out.
PaygPricingNoFreeUnits ==
    [model |-> "payg_with_free_tier", free_units |-> 0, rate_per_unit |-> 50]

\* The pricing of cont_002.
PaygPricing ==
    [model |-> "payg_with_free_tier", free_units |-> 1000000, rate_per_unit |-> 50]

\* The list generate_contracts builds.
Contracts ==
    << [contract_id |-> "cont_001", customer_id |-> "cust_001",
        product_id |-> "prod_002", contract_type |-> "free_tier",
        start_date |-> isoformat(BASE_DATE),
        end_date |-> isoformat(ContractEnd(BASE_DATE)),
        pricing |-> [model |-> "free_tier", free_units |-> 1000000,
                     overage_rate |-> 0]],
       [contract_id |-> "cont_002", customer_id |-> "cust_002",
        product_id |-> "prod_001", contract_type |-> "pay_as_you_go",
        start_date |-> isoformat(BASE_DATE),
        end_date |-> isoformat(ContractEnd(BASE_DATE)),
        pricing |-> PaygPricing],
       [contract_id |-> "cont_003", customer_id |-> "cust_003",
        contract_type |-> "enterprise_multi_product",
        start_date |-> isoformat(BASE_DATE),
        end_date |-> isoformat(ContractEnd(BASE_DATE)),
        components |->
          << [product_id |-> "prod_001", pricing |-> PrepaidPricing],
             [product_id |-> "prod_002",
              pricing |-> [model |-> "payg_with_free_tier", free_units |-> 1000000,
                           rate_per_unit |-> 80]],
             [product_id |-> "prod_003",
              pricing |-> [model |-> "payg_with_free_tier", free_units |-> 1000000,
                           rate_per_unit |-> 8]] >>] >>

\* Faulty variant: the Session Replay loop of cust_003 names Product Analytics.
UsageLoopsWrongProduct ==
    << [count |-> 25, customer_id |-> "cust_001", product_id |-> "prod_002",
        event_count |-> 32000],
       [count |-> 50, customer_id |-> "cust_002", product_id |-> "prod_001",
        event_count |-> 80000],
       [count |-> 50, customer_id |-> "cust_003", product_id |-> "prod_001",
        event_count |-> 120000],
       [count |-> 30, customer_id |-> "cust_003", product_id |-> "prod_001",
        event_count |-> 80000],
       [count |-> 20, customer_id |-> "cust_003", product_id |-> "prod_003",
        event_count |-> 80000] >>

\* The five for-loops of generate_usage_events: range(count), and the fields
\* that differ from loop to loop.
UsageLoops ==
    << [count |-> 25, customer_id |-> "cust_001", product_id |-> "prod_002",
        event_count |-> 32000],
       [count |-> 50, customer_id |-> "cust_002", product_id |-> "prod_001",
        event_count |-> 80000],
       [count |-> 50, customer_id |-> "cust_003", product_id |-> "prod_001",
        event_count |-> 120000],
       [count |-> 30, customer_id |-> "cust_003", product_id |-> "prod_002",
        event_count |-> 80000],
       [count |-> 20, customer_id |-> "cust_003", product_id |-> "prod_003",
        event_count |-> 80000] >>

\* f"{n:06d}": the six zero-padded digits of n (n < 1000000)
Format06d(n) ==
    [k \in 1..6 |-> (n \div (10 ^ (6 - k))) % 10]

\* f"evt_{event_id:06d}"
EventIdText(n) ==
    <<"evt_">> \o Format06d(n)

\* The timestamp of the event drawn by a generator in state s: three randint
\* calls, days, hours, minutes, in the order the keyword arguments are written.
EventDate(s) ==
    AddDelta(BASE_DATE,
             RandintOf(RngIter(s, 1), 1, 30),
             RandintOf(RngIter(s, 2), 0, 23),
             RandintOf(RngIter(s, 3), 0, 59))

\* The dict one loop iteration appends.
UsageEvent(l, id, s) ==
    [event_id |-> EventIdText(id),
     customer_id |-> UsageLoops[l].customer_id,
     product_id |-> UsageLoops[l].product_id,
     event_count |-> UsageLoops[l].event_count,
     timestamp |-> isoformat(EventDate(s)),
     metadata |-> [source |-> "production_api", version |-> "1.0"]]

\* Faulty variant: the counter is not advanced.
NextEventIdStuck(id) ==
    id

\* event_id += 1
NextEventId(id) ==
    id + 1

\* The elements of s at the positions idx, ordered by timestamp; elements of
\* equal timestamp keep their order (list.sort is stable).
SortedAt(s, idx) ==
    LET ranked == {<<Cardinality({o \in idx :
                          \/ StrLess(s[o].timestamp, s[p].timestamp)
                          \/ (s[o].timestamp = s[p].timestamp /\ o < p)}) + 1,
                     p>> : p \in idx}
    IN  [r \in 1..Cardinality(idx) |-> s[(CHOOSE rp \in ranked : rp[1] = r)[2]]]

\* events.sort(key=lambda x: x["timestamp"])
SortByTimestamp(s) ==
    SortedAt(s, 1..Len(s))

EmptyDict ==
    [k \in {} |-> 0]

\* Faulty variant: the total is assigned, not accumulated.
TotalsStepAssign(t, e) ==
    LET key == <<e.customer_id, e.product_id>>
    IN  IF key \in DOMAIN t THEN [t EXCEPT ![key] = e.event_count]
        ELSE t @@ (key :> e.event_count)

\* totals[key] = totals.get(key, 0) + event["event_count"]
TotalsStep(t, e) ==
    LET key == <<e.customer_id, e.product_id>>
    IN  IF key \in DOMAIN t THEN [t EXCEPT ![key] = @ + e.event_count]
        ELSE t @@ (key :> (0 + e.event_count))

\* Faulty variant: the first receipt is booked to the other customer.
CashReceiptsWrongCustomer ==
    << [receipt_id |-> "ch_stripe_001", customer_id |-> "cust_003",
        amount |-> 200000, currency |-> "USD",
        payment_date |-> strftime_ymd(AddDelta(BASE_DATE, 31, 0, 0)),
        payment_method |-> "card", stripe_charge_id |-> "ch_3ABC123XYZ",
        description |-> "Product Analytics - November usage", status |-> "succeeded"],
       [receipt_id |-> "ch_stripe_002", customer_id |-> "cust_003",
        amount |-> 100000, currency |-> "USD",
        payment_date |-> strftime_ymd(BASE_DATE),
        payment_method |-> "card", stripe_charge_id |-> "ch_3DEF456ABC",
        description |-> "Multi-product Bundle - Prepaid Credits",
        status |-> "succeeded"] >>

\* The list generate_cash_receipts builds.
CashReceipts ==
    << [receipt_id |-> "ch_stripe_001", customer_id |-> "cust_002",
        amount |-> 200000, currency |-> "USD",
        payment_date |-> strftime_ymd(AddDelta(BASE_DATE, 31, 0, 0)),
        payment_method |-> "card", stripe_charge_id |-> "ch_3ABC123XYZ",
        description |-> "Product Analytics - November usage", status |-> "succeeded"],
       [receipt_id |-> "ch_stripe_002", customer_id |-> "cust_003",
        amount |-> 100000, currency |-> "USD",
        payment_date |-> strftime_ymd(BASE_DATE),
        payment_method |-> "card", stripe_charge_id |-> "ch_3DEF456ABC",
        description |-> "Multi-product Bundle - Prepaid Credits",
        status |-> "succeeded"] >>

\* csv.DictWriter: the header, then one row per receipt, fields in fieldnames order
CsvOf(receipts) ==
    << <<"receipt_id", "customer_id", "amount", "currency", "payment_date",
         "payment_method", "stripe_charge_id", "description", "status">> >>
    \o [k \in 1..Len(receipts) |->
          <<receipts[k].receipt_id, receipts[k].customer_id, receipts[k].amount,
            receipts[k].currency, receipts[k].payment_date,
            receipts[k].payment_method, receipts[k].stripe_charge_id,
            receipts[k].description, receipts[k].status>>]

NoFiles ==
    [customers |-> None, products |-> None, contracts |-> None,
     usage_events |-> None, cash_receipts |-> None]

\* ------------------------------------------------------------------ rating engine

Min(a, b) ==
    IF a <= b THEN a ELSE b

Max(a, b) ==
    IF a >= b THEN a ELSE b

\* x / d rounded to the nearest integer, ties to the even one (x >= 0, d > 0)
RoundHalfEven(x, d) ==
    LET q == x \div d
        r == x % d
    IN  IF 2 * r < d THEN q
        ELSE IF 2 * r > d THEN q + 1
        ELSE IF q % 2 = 0 THEN q ELSE q + 1

\* The breakdown and amount of quantity q under a pricing model.  `exact` is
\* billable x rate in 1/100000 dollar, `amount` is in cents.
EvaluatePricing(pricing, q) ==
    LET none == [free_units_applied |-> 0, prepaid_units_applied |-> 0,
                 billable_units |-> 0, rate_used |-> 0, exact |-> 0, amount |-> 0,
                 error |-> None]
    IN  IF q < 0 THEN [none EXCEPT !.error = "InvalidUsage"]
        ELSE IF pricing.model = "free_tier" THEN
            LET free == Min(q, pricing.free_units)
            IN  [none EXCEPT !.free_units_applied = free,
                             !.billable_units = q - free,
                             !.error = IF q - free > 0 THEN "PolicyViolation" ELSE None]
        ELSE IF pricing.model = "payg_with_free_tier" THEN
            LET billable == Max(0, q - pricing.free_units)
            IN  [none EXCEPT !.free_units_applied = q - billable,
                             !.billable_units = billable,
                             !.rate_used = pricing.rate_per_unit,
                             !.exact = billable * pricing.rate_per_unit,
                             !.amount = RoundHalfEven(billable * pricing.rate_per_unit,
                                                      1000)]
        ELSE IF pricing.model = "prepaid_with_free_tier" THEN
            LET free == Min(q, pricing.free_units)
                prepaid == Min(q - free, pricing.included_units)
                overage == q - free - prepaid
            IN  [none EXCEPT !.free_units_applied = free,
                             !.prepaid_units_applied = prepaid,
                             !.billable_units = overage,
                             !.rate_used = pricing.overage_rate,
                             !.exact = overage * pricing.overage_rate,
                             !.amount = RoundHalfEven(overage * pricing.overage_rate,
                                                      1000)]
        ELSE [none EXCEPT !.error = "UnsupportedPricingModel"]

\* The components of a contract; a contract with a top-level product_id and
\* pricing is a contract of one component.
ComponentsOf(c) ==
    IF "components" \in DOMAIN c THEN c.components
    ELSE <<[product_id |-> c.product_id, pricing |-> c.pricing]>>

\* start <= ts < end, on the texts
Covers(c, ts) ==
    ~StrLess(ts, c.start_date) /\ StrLess(ts, c.end_date)

\* The <<contract, component>> positions that (customer, product, ts) resolves to.
Resolutions(contracts, customer, product, ts) ==
    UNION {{<<c, k>> : k \in {j \in 1..Len(ComponentsOf(contracts[c])) :
                                 /\ contracts[c].customer_id = customer
                                 /\ Covers(contracts[c], ts)
                                 /\ ComponentsOf(contracts[c])[j].product_id = product}} :
           c \in 1..Len(contracts)}

\* The single covering component, or the error of resolution.
Resolve(contracts, customer, product, ts) ==
    LET found == Resolutions(contracts, customer, product, ts)
    IN  IF found = {} THEN [error |-> "NoActiveContract"]
        ELSE IF Cardinality(found) > 1 THEN [error |-> "OverlappingContracts"]
        ELSE LET at == CHOOSE x \in found : TRUE
             IN  [error |-> None,
                  contract_id |-> contracts[at[1]].contract_id,
                  product_id |-> product,
                  pricing |-> ComponentsOf(contracts[at[1]])[at[2]].pricing]

\* The charge line of one aggregated-usage record.
ChargeLine(contracts, key, quantity, ts) ==
    LET r == Resolve(contracts, key[1], key[2], ts)
    IN  IF r.error # None THEN [error |-> r.error]
        ELSE [error |-> None, contract_id |-> r.contract_id, customer_id |-> key[1],
              product_id |-> key[2], quantity |-> quantity,
              breakdown |-> EvaluatePricing(r.pricing, quantity)]

\* Rating: one charge line per aggregated-usage record, each on its own.
Rate(contracts, usage, ts) ==
    [key \in DOMAIN usage |-> ChargeLine(contracts, key, usage[key], ts)]

RECURSIVE SumRange(_, _, _)
\* f[lo] + ... + f[hi]
SumRange(f, lo, hi) ==
    IF lo > hi THEN 0
    ELSE IF lo = hi THEN f[lo]
    ELSE LET mid == (lo + hi) \div 2
         IN  SumRange(f, lo, mid) + SumRange(f, mid + 1, hi)

\* The usage of the data window by (customer, product): every event counted
\* where it belongs, in whatever order the events come.
WindowUsage(evs) ==
    LET keys == {<<evs[k].customer_id, evs[k].product_id>> : k \in 1..Len(evs)}
    IN  [key \in keys |->
           SumRange([k \in 1..Len(evs) |->
                       IF <<evs[k].customer_id, evs[k].product_id>> = key
                       THEN evs[k].event_count ELSE 0],
                    1, Len(evs))]

RECURSIVE SumOver(_, _)
\* the sum of f over the small finite set S of its arguments
SumOver(f, S) ==
    IF S = {} THEN 0
    ELSE LET x == CHOOSE y \in S : TRUE IN f[x] + SumOver(f, S \ {x})

\* The total charge of a customer: the sum of the amounts of its charge lines.
TotalCharge(lines, customer) ==
    LET mine == {key \in DOMAIN lines : key[1] = customer /\ lines[key].error = None}
    IN  SumOver([key \in mine |-> lines[key].breakdown.amount], mine)

\* The total charge of a contract: the sum of its components' charges.
ContractCharge(lines, contract_id) ==
    LET mine == {key \in DOMAIN lines :
                    lines[key].error = None /\ lines[key].contract_id = contract_id}
    IN  SumOver([key \in mine |-> lines[key].breakdown.amount], mine)

\* The receipts of a csv file that count for a customer: rows 2.. of the file,
\* column 2 the customer, 3 the amount, 4 the currency, 9 the status.
SucceededReceipts(csv, customer) ==
    {k \in 2..Len(csv) :
        csv[k][2] = customer /\ csv[k][9] = "succeeded" /\ csv[k][4] = "USD"}

\* The statement of a customer: net balance = receipts - charges.
Statement(lines, csv, customer) ==
    LET paid == SucceededReceipts(csv, customer)
        receipts == SumOver([k \in paid |-> csv[k][3]], paid)
        charges == TotalCharge(lines, customer)
    IN  [total_charge |-> charges, total_receipts |-> receipts,
         net_balance |-> receipts - charges]

\* The billing period of a timestamp under calendar months: the text truncated
\* to its month.
BillingPeriod(ts) ==
    <<ts[1], ts[2]>>

\* The key of an event under calendar-month billing periods.
PeriodKey(e) ==
    <<e.customer_id, e.product_id, BillingPeriod(e.timestamp)>>

\* Aggregated usage by (customer, product, billing period).
AggregatedUsage(evs) ==
    LET keys == {PeriodKey(evs[k]) : k \in 1..Len(evs)}
    IN  [key \in keys |->
           SumRange([k \in 1..Len(evs) |->
                       IF PeriodKey(evs[k]) = key THEN evs[k].event_count ELSE 0],
                    1, Len(evs))]

\* The quantities pricing evaluations are asked for.
Quantities ==
    {k * 500000 : k \in 0..MaxQSteps}
    \cup {999999, 1000001, 1000010, 5999999, 6000001, -1}

\* The pricing models of the generated contracts.
Pricings(contracts) ==
    UNION {{ComponentsOf(contracts[c])[k].pricing :
               k \in 1..Len(ComponentsOf(contracts[c]))} : c \in 1..Len(contracts)}

\* ------------------------------------------------------------------ the script

Init ==
    /\ pc = "boot"
    /\ run = 1
    /\ stream \in 0..MaxStream
    /\ rng = None
    /\ fakeRng = None
    /\ loop = 0
    /\ i = 0
    /\ event_id = 0
    /\ events = <<>>
    /\ totals = EmptyDict
    /\ files = NoFiles
    /\ prevFiles = NoFiles
    /\ prevTotals = EmptyDict
    /\ chargeLines = EmptyDict
    /\ prevLines = EmptyDict
    /\ statements = EmptyDict
    /\ probe = <<>>

\* Module level: fake = Faker(); Faker.seed(42); random.seed(42)
module_seed ==
    /\ pc = "boot"
    /\ fakeRng' = RandomSeed(42)
    /\ rng' = RandomSeed(42)
    /\ pc' = "customers"
    /\ UNCHANGED <<run, stream, loop, i, event_id, events, totals, files, prevFiles,
                   prevTotals, chargeLines, prevLines, statements, probe>>

generate_customers ==
    /\ pc = "customers"
    /\ files' = [files EXCEPT !.customers = Customers(fakeRng)]
    /\ fakeRng' = RngIter(fakeRng, 6)
    /\ pc' = "products"
    /\ UNCHANGED <<run, stream, rng, loop, i, event_id, events, totals, prevFiles,
                   prevTotals, chargeLines, prevLines, statements, probe>>

generate_products ==
    /\ pc = "products"
    /\ files' = [files EXCEPT !.products = Products]
    /\ pc' = "contracts"
    /\ UNCHANGED <<run, stream, rng, fakeRng, loop, i, event_id, events, totals,
                   prevFiles, prevTotals, chargeLines, prevLines, statements, probe>>

\* generate_contracts, and the first lines of generate_usage_events
generate_contracts ==
    /\ pc = "contracts"
    /\ files' = [files EXCEPT !.contracts = Contracts]
    /\ events' = <<>>
    /\ event_id' = 1
    /\ loop' = 1
    /\ i' = 0
    /\ pc' = "usage"
    /\ UNCHANGED <<run, stream, rng, fakeRng, totals, prevFiles, prevTotals,
                   chargeLines, prevLines, statements, probe>>

\* One iteration of the running for-loop of generate_usage_events.
usage_append ==
    /\ pc = "usage"
    /\ i < UsageLoops[loop].count
    /\ events' = Append(events, UsageEvent(loop, event_id, rng))
    /\ rng' = RngIter(rng, 3)
    /\ event_id' = NextEventId(event_id)
    /\ i' = i + 1
    /\ UNCHANGED <<pc, run, stream, fakeRng, loop, totals, files, prevFiles,
                   prevTotals, chargeLines, prevLines, statements, probe>>

\* The running for-loop is exhausted and the next one starts.
usage_loop_exit ==
    /\ pc = "usage"
    /\ i = UsageLoops[loop].count
    /\ loop < Len(UsageLoops)
    /\ loop' = loop + 1
    /\ i' = 0
    /\ UNCHANGED <<pc, run, stream, rng, fakeRng, event_id, events, totals, files,
                   prevFiles, prevTotals, chargeLines, prevLines, statements, probe>>

\* After the last loop: the sort and the dump; the totals loop starts.
usage_sort ==
    /\ pc = "usage"
    /\ i = UsageLoops[loop].count
    /\ loop = Len(UsageLoops)
    /\ events' = SortByTimestamp(events)
    /\ files' = [files EXCEPT !.usage_events = events']
    /\ totals' = EmptyDict
    /\ i' = 0
    /\ pc' = "totals"
    /\ UNCHANGED <<run, stream, rng, fakeRng, loop, event_id, prevFiles,
                   prevTotals, chargeLines, prevLines, statements, probe>>

\* One iteration of `for event in events`.
totals_step ==
    /\ pc = "totals"
    /\ i < Len(events)
    /\ totals' = TotalsStep(totals, events[i + 1])
    /\ i' = i + 1
    /\ UNCHANGED <<pc, run, stream, rng, fakeRng, loop, event_id, events, files,
                   prevFiles, prevTotals, chargeLines, prevLines, statements, probe>>

\* The totals loop is exhausted; generate_usage_events returns.
totals_done ==
    /\ pc = "totals"
    /\ i = Len(events)
    /\ pc' = "receipts"
    /\ UNCHANGED <<run, stream, rng, fakeRng, loop, i, event_id, events, totals,
                   files, prevFiles, prevTotals, chargeLines, prevLines, statements,
                   probe>>

\* generate_cash_receipts, and the end of main
generate_cash_receipts ==
    /\ pc = "receipts"
    /\ files' = [files EXCEPT !.cash_receipts = CsvOf(CashReceipts)]
    /\ pc' = "done"
    /\ UNCHANGED <<run, stream, rng, fakeRng, loop, i, event_id, events, totals,
                   prevFiles, prevTotals, chargeLines, prevLines, statements, probe>>

\* The engine rates the generated usage against the generated contracts, the
\* data window being one billing period that starts at BASE_DATE.
rate ==
    /\ pc = "done"
    /\ chargeLines' = Rate(files.contracts, WindowUsage(files.usage_events),
                           isoformat(BASE_DATE))
    /\ pc' = "rated"
    /\ UNCHANGED <<run, stream, rng, fakeRng, loop, i, event_id, events, totals,
                   files, prevFiles, prevTotals, prevLines, statements, probe>>

\* The engine reconciles the charge lines with the cash receipts.
reconcile ==
    /\ pc = "rated"
    /\ statements' =
         [c \in {files.customers[k].customer_id : k \in 1..Len(files.customers)} |->
            Statement(chargeLines, files.cash_receipts, c)]
    /\ pc' = "settled"
    /\ UNCHANGED <<run, stream, rng, fakeRng, loop, i, event_id, events, totals,
                   files, prevFiles, prevTotals, chargeLines, prevLines, probe>>

\* A pricing model of the generated contracts is evaluated for a quantity (one
\* evaluation is followed per execution).
evaluate ==
    /\ pc = "settled"
    /\ probe = <<>>
    /\ \E pricing \in Pricings(files.contracts), q \in Quantities :
          probe' = <<[pricing |-> pricing, quantity |-> q,
                      breakdown |-> EvaluatePricing(pricing, q)]>>
    /\ UNCHANGED <<pc, run, stream, rng, fakeRng, loop, i, event_id, events, totals,
                   files, prevFiles, prevTotals, chargeLines, prevLines, statements>>

\* The script is executed again: a new process, the files of the last one on disk.
rerun ==
    /\ pc = "settled"
    /\ run < MaxRuns
    /\ run' = run + 1
    /\ prevFiles' = files
    /\ prevTotals' = totals
    /\ prevLines' = chargeLines
    /\ pc' = "boot"
    /\ rng' = None
    /\ fakeRng' = None
    /\ loop' = 0
    /\ i' = 0
    /\ event_id' = 0
    /\ events' = <<>>
    /\ totals' = EmptyDict
    /\ chargeLines' = EmptyDict
    /\ statements' = EmptyDict
    /\ probe' = <<>>
    /\ UNCHANGED <<stream, files>>

Next ==
    \/ module_seed
    \/ generate_customers
    \/ generate_products
    \/ generate_contracts
    \/ usage_append
    \/ usage_loop_exit
    \/ usage_sort
    \/ totals_step
    \/ totals_done
    \/ generate_cash_receipts
    \/ rate
    \/ reconcile
    \/ evaluate
    \/ rerun

Spec ==
    Init /\ [][Next]_vars

\* ------------------------------------------------------------------ properties

\* generate_usage_events has returned: the events are sorted, the totals complete.
Generated ==
    pc \in {"receipts", "done", "rated", "settled"}

\* The engine has rated the generated usage.
Rated ==
    pc \in {"rated", "settled"}

\* The sort moved at least one event away from the place it was appended at.
SortPermuted ==
    \E k \in 1..Len(events) : events[k].event_id # EventIdText(k)

\* The totals of the events in the order the loops append them.
AppendOrderTotals ==
    (<<"cust_001", "prod_002">> :> 800000) @@ (<<"cust_002", "prod_001">> :> 4000000)
    @@ (<<"cust_003", "prod_001">> :> 6000000) @@ (<<"cust_003", "prod_002">> :> 2400000)
    @@ (<<"cust_003", "prod_003">> :> 1600000)

\* C1: an execution that starts from the same seeded state as the one before it
\* leaves identical files (customers, products, contracts, usage events in the
\* same order, cash receipts) and identical totals, and rating them gives
\* identical charge lines.
C1_RerunIsIdentical ==
    /\ (run >= 2 /\ pc \in {"done", "rated", "settled"})
          => (files = prevFiles /\ totals = prevTotals)
    /\ (run >= 2 /\ Rated) => chargeLines = prevLines

\* C1 witness: a second execution has finished and been rated.
C1_Witness ==
    /\ run = 2
    /\ pc = "settled"
    /\ Len(files.usage_events) = 175
    /\ Len(prevFiles.usage_events) = 175
    /\ DOMAIN chargeLines = DOMAIN AppendOrderTotals

\* C2: the event ids are pairwise distinct, they are evt_000001 .. evt_000175
\* once the loops are done and the sort keeps them, and the totals loop has
\* added each event's count to its key exactly once: the totals of the first i
\* events are their usage by key, and the totals sum to the sum of the counts.
C2_EachEventCountedOnce ==
    /\ Cardinality({events[k].event_id : k \in 1..Len(events)}) = Len(events)
    /\ pc \in {"totals", "receipts", "done", "rated", "settled"}
          => /\ Len(events) = 175
             /\ {events[k].event_id : k \in 1..Len(events)}
                   = {EventIdText(n) : n \in 1..175}
             /\ totals = WindowUsage(SubSeq(events, 1, i))
             /\ SumOver(totals, DOMAIN totals)
                   = SumRange([k \in 1..i |-> events[k].event_count], 1, i)
    /\ Generated => i = Len(events)

\* C2 witness: the totals loop has run over all 175 sorted events.
C2_Witness ==
    /\ pc = "receipts"
    /\ i = 175
    /\ SortPermuted
    /\ SumOver(totals, DOMAIN totals) = 14800000

\* C3: whatever order the sort puts the events in, the totals computed after it
\* are the totals of the events in append order, and the charge lines are those
\* of these totals.
C3_TotalsIndependentOfOrder ==
    /\ Generated => totals = AppendOrderTotals
    /\ Rated => chargeLines = Rate(Contracts, AppendOrderTotals, isoformat(BASE_DATE))

\* C3 witness: the events were rated in an order that is not the append order.
C3_Witness ==
    /\ Rated
    /\ SortPermuted
    /\ \E k \in 1..(Len(events) - 1) : events[k].customer_id # events[k + 1].customer_id
    /\ totals[<<"cust_003", "prod_002">>] = 2400000

\* The evaluations asked for so far of pricings of the given model, for
\* non-negative quantities.
Probes(model) ==
    {k \in 1..Len(probe) : probe[k].pricing.model = model /\ probe[k].quantity >= 0}

Cont003Pricing(product) ==
    LET comps == files.contracts[3].components
    IN  comps[CHOOSE k \in 1..Len(comps) : comps[k].product_id = product].pricing

CoveringContracts(contracts, customer, ts) ==
    {c \in 1..Len(contracts) :
        contracts[c].customer_id = customer /\ Covers(contracts[c], ts)}

\* (customer, product, ts) resolves to one component of one contract.
ResolvesUniquely(contracts, customer, product, ts) ==
    /\ Cardinality(CoveringContracts(contracts, customer, ts)) = 1
    /\ Cardinality(Resolutions(contracts, customer, product, ts)) = 1

\* C7: every generated event lies in the interval of exactly one generated
\* contract of its customer and matches exactly one component of it, and so
\* does every timestamp the loops can draw (BASE_DATE plus 1..30 days, 0..23
\* hours, 0..59 minutes; the contracts being the same in every execution, these
\* are gone through once, when the first execution has written the contracts);
\* no contract names a product in two components.
C7_ResolutionIsUnambiguous ==
    /\ pc \in {"usage", "totals", "receipts", "done", "rated", "settled"}
          => /\ \A k \in 1..Len(events) :
                   ResolvesUniquely(files.contracts, events[k].customer_id,
                                    events[k].product_id, events[k].timestamp)
             /\ \A c \in 1..Len(files.contracts) :
                   LET comps == ComponentsOf(files.contracts[c])
                   IN  \A a, b \in 1..Len(comps) :
                          comps[a].product_id = comps[b].product_id => a = b
    /\ (pc = "usage" /\ events = <<>> /\ run = 1 /\ stream = 0)
          => \A d \in 1..30, h \in 0..23, m \in 0..59 :
                LET ts == isoformat(AddDelta(BASE_DATE, d, h, m))
                IN  \A l \in 1..Len(UsageLoops) :
                       ResolvesUniquely(files.contracts, UsageLoops[l].customer_id,
                                        UsageLoops[l].product_id, ts)
    /\ Rated => \A key \in DOMAIN chargeLines : chargeLines[key].error = None

\* C7 witness: an event thirty days after BASE_DATE, on 2024-12-01, was
\* generated and its usage rated.
C7_Witness ==
    /\ Rated
    /\ \E k \in 1..Len(events) :
          /\ events[k].timestamp[2] = 12
          /\ ResolvesUniquely(files.contracts, events[k].customer_id,
                              events[k].product_id, events[k].timestamp)

C9_UsageExceedsPrepaid ==
    /\ Generated
          => /\ Len(events) = 175
             /\ \A c \in {"cust_001", "cust_002", "cust_003"} :
                   Cardinality({k \in 1..Len(events) : events[k].customer_id = c})
                      = (IF c = "cust_001" THEN 25 ELSE IF c = "cust_002" THEN 50 ELSE 100)
    /\ Generated
          => LET pr == Cont003Pricing("prod_001")
             IN  totals[<<"cust_003", "prod_001">>] - pr.free_units - pr.included_units > 0

\* C10, as claimed: every generated event falls in November 2024, so that each
\* (customer, product) has one aggregated-usage record under calendar months,
\* holding its full total.
C10_AllEventsInNovember ==
    /\ \A k \in 1..Len(events) : BillingPeriod(events[k].timestamp) = <<2024, 11>>
    /\ Generated
          => /\ DOMAIN AggregatedUsage(events)
                   = {<<key[1], key[2], <<2024, 11>>>> : key \in DOMAIN totals}
             /\ AggregatedUsage(events)[<<"cust_002", "prod_001", <<2024, 11>>>>] = 4000000

====
